---- MODULE Spec2Model ----
(***************************************************************************)
(* Model of packagedcode/phpcomposer.py: the composer.json parser, its     *)
(* field mappers and the repository URL resolver.                          *)
(*                                                                         *)
(* Python strings are sequences of one-character strings, so that          *)
(* startswith, split, strip, "in" and "%" formatting are computed and not  *)
(* assumed.  Decoded JSON values are tagged records [t, v].                *)
(***************************************************************************)
EXTENDS Integers, Sequences, FiniteSets, TLC

VARIABLES package, call, history

vars == <<package, call, history>>

(***************************************************************************)
(* Bounds of the model.                                                    *)
(***************************************************************************)
MaxChunks == 3

MaxElems == 2

MaxCalls == 3

MaxRepos == 2

MaxBatch == 2

(***************************************************************************)
(* String literals of the source.                                          *)
(***************************************************************************)
VCS_URLS ==
    << <<"h","t","t","p","s",":","/","/">>,
       <<"h","t","t","p",":","/","/">>,
       <<"g","i","t",":","/","/">>,
       <<"g","i","t","+","g","i","t",":","/","/">>,
       <<"h","g","+","h","t","t","p","s",":","/","/">>,
       <<"h","g","+","h","t","t","p",":","/","/">>,
       <<"g","i","t","+","h","t","t","p","s",":","/","/">>,
       <<"g","i","t","+","h","t","t","p",":","/","/">>,
       <<"s","v","n","+","h","t","t","p","s",":","/","/">>,
       <<"s","v","n","+","h","t","t","p",":","/","/">>,
       <<"s","v","n",":","/","/">> >>

s_git_at == <<"g","i","t","@">>

s_gist == <<"g","i","s","t",":">>

s_bitbucket_colon == <<"b","i","t","b","u","c","k","e","t",":">>

s_gitlab_colon == <<"g","i","t","l","a","b",":">>

s_github_colon == <<"g","i","t","h","u","b",":">>

s_github == <<"g","i","t","h","u","b">>

s_bitbucket == <<"b","i","t","b","u","c","k","e","t">>

s_gitlab == <<"g","i","t","l","a","b">>

s_https == <<"h","t","t","p","s",":","/","/">>

s_bitbucket_org == <<"h","t","t","p","s",":","/","/","b","i","t","b","u","c","k","e","t",".","o","r","g","/">>

s_github_com == <<"h","t","t","p","s",":","/","/","g","i","t","h","u","b",".","c","o","m","/">>

s_gitlab_com == <<"h","t","t","p","s",":","/","/","g","i","t","l","a","b",".","c","o","m","/">>

s_svn == <<"s","v","n">>

s_hg == <<"h","g">>

s_cvs == <<"c","v","s">>

s_vcs == <<"v","c","s">>

s_type == <<"t","y","p","e">>

s_url == <<"u","r","l">>

s_person == <<"p","e","r","s","o","n">>

s_persons == <<"p","e","r","s","o","n","s">>

s_incorrect == <<"I","n","c","o","r","r","e","c","t"," ","P","H","P"," ","c","o","m","p","o","s","e","r"," ","c","o","m","p","o","s","e","r",".","j","s","o","n"," ","p","e","r","s","o","n",":"," ">>

(***************************************************************************)
(* Python str operations.                                                  *)
(***************************************************************************)
Whitespace == {" ", "\t", "\n"}

StartsWith(s, p) == Len(s) >= Len(p) /\ SubSeq(s, 1, Len(p)) = p

StartsWithAny(s, ps) == \E i \in DOMAIN ps : StartsWith(s, ps[i])

\* "sub in s"
Contains(s, sub) ==
    \E i \in 0..(Len(s) - Len(sub)) : SubSeq(s, i + 1, i + Len(sub)) = sub

\* index of the first occurrence of the character c in s, 0 if there is none
Find(s, c) ==
    IF \E i \in DOMAIN s : s[i] = c
    THEN CHOOSE i \in DOMAIN s : s[i] = c /\ \A j \in 1..(i - 1) : s[j] # c
    ELSE 0

\* s.split(c, 1): one part if c does not occur, else two
Split1(s, c) ==
    IF Find(s, c) = 0
    THEN <<s>>
    ELSE <<SubSeq(s, 1, Find(s, c) - 1), SubSeq(s, Find(s, c) + 1, Len(s))>>

\* len(s.split(c))
SplitCount(s, c) == Cardinality({i \in DOMAIN s : s[i] = c}) + 1

\* s.strip(chars)
StripChars(s, chars) ==
    IF \A i \in DOMAIN s : s[i] \in chars
    THEN <<>>
    ELSE LET lo == CHOOSE i \in DOMAIN s :
                       s[i] \notin chars /\ \A j \in 1..(i - 1) : s[j] \in chars
             hi == CHOOSE i \in DOMAIN s :
                       s[i] \notin chars /\ \A j \in (i + 1)..Len(s) : s[j] \in chars
         IN  SubSeq(s, lo, hi)

Strip(s) == StripChars(s, Whitespace)

RECURSIVE Flatten(_)
Flatten(ss) == IF ss = <<>> THEN <<>> ELSE Head(ss) \o Flatten(Tail(ss))

(***************************************************************************)
(* Outcome of a call: a returned value or a raised exception.              *)
(***************************************************************************)
Return(val) == [exc |-> "none", val |-> val, arg |-> <<>>]

Raise(type, arg) == [exc |-> type, val |-> <<>>, arg |-> arg]

(***************************************************************************)
(* parse_repo_url                                                          *)
(***************************************************************************)
\* hoster_urls: the keys carry the trailing colon
hoster_urls ==
    [k \in {s_bitbucket_colon, s_github_colon, s_gitlab_colon} |->
        IF k = s_bitbucket_colon THEN s_bitbucket_org
        ELSE IF k = s_github_colon THEN s_github_com
        ELSE s_gitlab_com]

parse_git_at(repo_url) ==
    LET right == Split1(repo_url, "@")[2]
        parts == Split1(right, ":")
    IN  IF Len(parts) # 2
        THEN Raise("ValueError", <<>>)
        ELSE IF \E h \in {s_github, s_bitbucket, s_gitlab} : Contains(parts[1], h)
             THEN Return(s_https \o parts[1] \o <<"/">> \o parts[2])
             ELSE Return(repo_url)

parse_hoster(repo_url) ==
    LET parts == Split1(repo_url, ":")
        hoster == parts[1]
        repo == parts[2]
    IN  IF hoster \in DOMAIN hoster_urls
        THEN Return(hoster_urls[hoster] \o repo)
        ELSE Raise("KeyError", hoster)

parse_repo_url(repo_url) ==
    IF StartsWithAny(repo_url, VCS_URLS) THEN Return(repo_url)
    ELSE IF StartsWith(repo_url, s_git_at) THEN parse_git_at(repo_url)
    ELSE IF StartsWith(repo_url, s_gist) THEN Return(repo_url)
    ELSE IF StartsWithAny(repo_url, <<s_bitbucket_colon, s_gitlab_colon, s_github_colon>>)
         THEN parse_hoster(repo_url)
    ELSE IF SplitCount(repo_url, "/") = 2 THEN Return(s_github_com \o repo_url)
    ELSE Return(repo_url)

(***************************************************************************)
(* Decoded JSON values: [t |-> tag, v |-> payload].  A str holds its       *)
(* characters, a num its integer, a list its elements, an obj its          *)
(* <<key, value>> pairs in document order; None is Python's None.          *)
(***************************************************************************)
None == [t |-> "null", v |-> <<>>]

Str(s) == [t |-> "str", v |-> s]

Num(n) == [t |-> "num", v |-> n]

List(xs) == [t |-> "list", v |-> xs]

Obj(pairs) == [t |-> "obj", v |-> pairs]

\* Python truth value: "if value:"
Truthy(x) ==
    CASE x.t = "null" -> FALSE
      [] x.t = "num" -> x.v # 0
      [] OTHER -> x.v # <<>>

\* isinstance(x, basestring)
IsString(x) == x.t = "str"

\* d.get(key): the value of the key, None when the key is missing
Get(d, key) ==
    IF \E i \in DOMAIN d.v : d.v[i][1] = key
    THEN d.v[CHOOSE i \in DOMAIN d.v :
                 d.v[i][1] = key /\ \A j \in (i + 1)..Len(d.v) : d.v[j][1] # key][2]
    ELSE None

Digits == <<"0","1","2","3","4","5","6","7","8","9">>

RECURSIVE Repr(_), ReprItems(_), ReprPairs(_)
\* repr(x) of Python 2 on a decoded JSON value
Repr(x) ==
    CASE x.t = "null" -> <<"N","o","n","e">>
      [] x.t = "num" -> <<Digits[x.v + 1]>>
      [] x.t = "str" -> <<"u","'">> \o x.v \o <<"'">>
      [] x.t = "list" -> <<"[">> \o ReprItems(x.v) \o <<"]">>
      [] OTHER ->
           IF x.v = <<>>
           THEN <<"O","r","d","e","r","e","d","D","i","c","t","(",")">>
           ELSE <<"O","r","d","e","r","e","d","D","i","c","t","(","[">>
                    \o ReprPairs(x.v) \o <<"]",")">>

ReprItems(xs) ==
    IF xs = <<>> THEN <<>>
    ELSE IF Len(xs) = 1 THEN Repr(xs[1])
    ELSE Repr(xs[1]) \o <<",", " ">> \o ReprItems(Tail(xs))

ReprPairs(ps) ==
    IF ps = <<>> THEN <<>>
    ELSE LET one == <<"(">> \o Repr(Str(ps[1][1])) \o <<",", " ">>
                        \o Repr(ps[1][2]) \o <<")">>
         IN  IF Len(ps) = 1 THEN one ELSE one \o <<",", " ">> \o ReprPairs(Tail(ps))

(***************************************************************************)
(* The package record (packagedcode.models.Package) and mapper outcomes.   *)
(***************************************************************************)
NewPackage ==
    [ location |-> <<>>,
      metafile_locations |-> <<>>,
      name |-> None,
      summary |-> None,
      keywords |-> None,
      version |-> None,
      homepage_url |-> None,
      authors |-> <<>>,
      asserted_licenses |-> <<>>,
      dependencies |-> [k \in {} |-> <<>>],
      vcs_tool |-> None,
      vcs_repository |-> None,
      support_contacts |-> <<>>,
      bug_tracking_url |-> None,
      code_view_url |-> None ]

\* "return package"
Returned(pkg) == [exc |-> "none", arg |-> <<>>, pkg |-> pkg]

\* an exception leaves the mapper; pkg is the record as mutated so far
Raised(type, arg, pkg) == [exc |-> type, arg |-> arg, pkg |-> pkg]

AssertedLicense(license) == [license |-> license]

Party(name, email, url) == [type |-> "person", name |-> name, email |-> email, url |-> url]

Dependency(name, version_constraint) ==
    [name |-> name, version_constraint |-> version_constraint]

(***************************************************************************)
(* licensing_mapper                                                        *)
(***************************************************************************)
RECURSIVE license_list_skip_empty(_, _)
\* license_list with the truth test moved in front of the string test, so
\* that an empty string element is dropped
license_list_skip_empty(licenses, acc) ==
    IF licenses = <<>> THEN acc
    ELSE LET lic == Head(licenses)
         IN  IF ~Truthy(lic) THEN license_list_skip_empty(Tail(licenses), acc)
             ELSE IF IsString(lic)
                  THEN license_list_skip_empty(Tail(licenses),
                                               Append(acc, AssertedLicense(lic.v)))
                  ELSE license_list_skip_empty(Tail(licenses),
                                               Append(acc, AssertedLicense(Repr(lic))))

RECURSIVE license_list(_, _)
\* the loop over a list-valued license; acc is asserted_licenses so far
license_list(licenses, acc) ==
    IF licenses = <<>> THEN acc
    ELSE LET lic == Head(licenses)
         IN  IF IsString(lic)
             THEN license_list(Tail(licenses), Append(acc, AssertedLicense(lic.v)))
             ELSE IF Truthy(lic)
                  THEN license_list(Tail(licenses), Append(acc, AssertedLicense(Repr(lic))))
                  ELSE license_list(Tail(licenses), acc)

licensing_mapper(licenses, pkg) ==
    IF ~Truthy(licenses) THEN Returned(pkg)
    ELSE IF IsString(licenses)
         THEN Returned([pkg EXCEPT !.asserted_licenses =
                            Append(@, AssertedLicense(licenses.v))])
    ELSE IF licenses.t = "list"
         THEN Returned([pkg EXCEPT !.asserted_licenses = license_list(licenses.v, @)])
    ELSE Returned([pkg EXCEPT !.asserted_licenses =
                       Append(@, AssertedLicense(Repr(licenses)))])

(***************************************************************************)
(* parse_person and author_mapper                                          *)
(***************************************************************************)
s_name == <<"n","a","m","e">>

s_email == <<"e","m","a","i","l">>

s_homepage == <<"h","o","m","e","p","a","g","e">>

\* "x and x.strip(chars)"
AndStrip(x, chars) ==
    IF ~Truthy(x) THEN Return(x)
    ELSE IF IsString(x) THEN Return(Str(StripChars(x.v, chars)))
    ELSE Raise("AttributeError", <<"s","t","r","i","p">>)

\* one iteration of the loop of parse_person
person_tuple(person) ==
    IF person.t # "obj" THEN Raise("AttributeError", <<"g","e","t">>)
    ELSE LET name == AndStrip(Get(person, s_name), Whitespace)
             email == AndStrip(Get(person, s_email), {"<", ">", " "})
             url == AndStrip(Get(person, s_homepage), {"(", ")", " "})
         IN  IF name.exc # "none" THEN name
             ELSE IF email.exc # "none" THEN email
             ELSE IF url.exc # "none" THEN url
             ELSE Return(<<name.val, email.val, url.val>>)

\* "raise Exception('...: %(person)r' % locals())" in the else branch, where
\* the only local name is the parameter persons
person_error(persons) ==
    LET locals == [k \in {s_persons} |-> persons]
    IN  IF s_person \in DOMAIN locals
        THEN Raise("Exception", s_incorrect \o Repr(locals[s_person]))
        ELSE Raise("KeyError", s_person)

RECURSIVE person_list(_, _)
person_list(persons, acc) ==
    IF persons = <<>> THEN Return(acc)
    ELSE LET tup == person_tuple(Head(persons))
         IN  IF tup.exc # "none" THEN tup
             ELSE person_list(Tail(persons), Append(acc, tup.val))

parse_person(persons) ==
    IF persons.t = "list" THEN person_list(persons.v, <<>>)
    ELSE person_error(persons)

author_mapper(authors_content, pkg) ==
    LET persons == parse_person(authors_content)
    IN  IF persons.exc # "none" THEN Raised(persons.exc, persons.arg, pkg)
        ELSE Returned([pkg EXCEPT !.authors =
                 [i \in DOMAIN persons.val |->
                     Party(persons.val[i][1], persons.val[i][2], persons.val[i][3])]])

(***************************************************************************)
(* support_mapper                                                          *)
(***************************************************************************)
s_issues == <<"i","s","s","u","e","s">>

s_source == <<"s","o","u","r","c","e">>

support_mapper(support, pkg) ==
    IF support.t # "obj" THEN Raised("AttributeError", <<"g","e","t">>, pkg)
    ELSE Returned([pkg EXCEPT !.support_contacts = <<Get(support, s_email)>>,
                              !.bug_tracking_url = Get(support, s_issues),
                              !.code_view_url = Get(support, s_source)])

(***************************************************************************)
(* repository_mapper                                                       *)
(***************************************************************************)
\* the if/elif chain on the prefix of the url of a vcs descriptor
vcs_tool_of(repo_url) ==
    IF StartsWith(repo_url, s_svn) THEN s_svn
    ELSE IF StartsWith(repo_url, s_hg) THEN s_hg
    ELSE IF StartsWith(repo_url, s_cvs) THEN s_cvs
    ELSE <<"g","i","t">>

\* the body of the loop for one descriptor
repository_step(repo, pkg) ==
    IF repo.t # "obj" THEN Raised("AttributeError", <<"g","e","t">>, pkg)
    ELSE IF Get(repo, s_type) # Str(s_vcs) THEN Returned(pkg)
    ELSE LET repo_url == Get(repo, s_url)
         IN  IF ~IsString(repo_url)
             THEN Raised("AttributeError", <<"s","t","a","r","t","s","w","i","t","h">>, pkg)
             ELSE LET tooled == [pkg EXCEPT !.vcs_tool = Str(vcs_tool_of(repo_url.v))]
                      resolved == parse_repo_url(repo_url.v)
                  IN  IF resolved.exc # "none"
                      THEN Raised(resolved.exc, resolved.arg, tooled)
                      ELSE Returned([tooled EXCEPT !.vcs_repository = Str(resolved.val)])

RECURSIVE repository_list(_, _)
repository_list(repos, pkg) ==
    IF repos = <<>> THEN Returned(pkg)
    ELSE LET step == repository_step(Head(repos), pkg)
         IN  IF step.exc # "none" THEN step
             ELSE repository_list(Tail(repos), step.pkg)

repository_mapper(repos, pkg) ==
    IF ~Truthy(repos) THEN Returned(pkg)
    ELSE IF IsString(repos)
         THEN LET resolved == parse_repo_url(repos.v)
              IN  IF resolved.exc # "none"
                  THEN Raised(resolved.exc, resolved.arg, pkg)
                  ELSE Returned([pkg EXCEPT !.vcs_repository = Str(resolved.val)])
    ELSE IF repos.t = "list" THEN repository_list(repos.v, pkg)
    ELSE Returned(pkg)

(***************************************************************************)
(* deps_mapper                                                             *)
(***************************************************************************)
dep_types == [dependencies |-> "runtime", devDependencies |-> "dev"]

\* deps_mapper assigning the batch without testing for an existing sequence
deps_mapper_overwrite(deps, pkg, field_name) ==
    LET resolved_type == dep_types[field_name]
    IN  IF deps.t # "obj" THEN Raised("AttributeError", <<"i","t","e","m","s">>, pkg)
        ELSE LET dependencies ==
                     [i \in DOMAIN deps.v |-> Dependency(deps.v[i][1], deps.v[i][2])]
             IN  Returned([pkg EXCEPT !.dependencies =
                      [k \in DOMAIN @ \cup {resolved_type} |->
                          IF k = resolved_type THEN dependencies ELSE @[k]]])

deps_mapper(deps, pkg, field_name) ==
    LET resolved_type == dep_types[field_name]
    IN  IF deps.t # "obj" THEN Raised("AttributeError", <<"i","t","e","m","s">>, pkg)
        ELSE LET dependencies ==
                     [i \in DOMAIN deps.v |-> Dependency(deps.v[i][1], deps.v[i][2])]
             IN  IF resolved_type \in DOMAIN pkg.dependencies
                 THEN Returned([pkg EXCEPT !.dependencies[resolved_type] = @ \o dependencies])
                 ELSE Returned([pkg EXCEPT !.dependencies =
                          [k \in DOMAIN @ \cup {resolved_type} |->
                              IF k = resolved_type THEN dependencies ELSE @[k]]])

dependencies_mapper(deps, pkg) == deps_mapper(deps, pkg, "dependencies")

dev_dependencies_mapper(deps, pkg) == deps_mapper(deps, pkg, "devDependencies")

(***************************************************************************)
(* parse                                                                   *)
(***************************************************************************)
\* str.lower() on the file names of the model
Lower(file_name) == IF file_name = "Composer.JSON" THEN "composer.json" ELSE file_name

\* location is [path, is_file]; path is a sequence of components
is_phpcomposer_json(location) ==
    location.is_file /\ Lower(location.path[Len(location.path)]) = "composer.json"

parent_directory(path) == SubSeq(path, 1, Len(path) - 1)

\* stripped without the call of strip
stripped_not(value) == value

\* "if value: if isinstance(value, basestring): value = value.strip()";
\* the result is what the second "if value:" tests
stripped(value) ==
    IF Truthy(value) /\ IsString(value) THEN Str(Strip(value.v)) ELSE value

\* one iteration of the loop over plain_fields: the new value of the target
plain_value(value, old) ==
    IF Truthy(stripped(value)) THEN stripped(value) ELSE old

\* the loop over plain_fields
plain_fields(data, pkg) ==
    [pkg EXCEPT !.name = plain_value(data["name"], @),
                !.summary = plain_value(data["description"], @),
                !.keywords = plain_value(data["keywords"], @),
                !.version = plain_value(data["version"], @),
                !.homepage_url = plain_value(data["homepage"], @)]

\* the keys of field_mappers in their order
mapper_sources == <<"authors", "license", "require", "require-dev", "repositories", "support">>

\* one iteration of the loop over field_mappers; res is the outcome so far
field_step(data, source, res) ==
    IF res.exc # "none" THEN res
    ELSE IF ~Truthy(stripped(data[source])) THEN res
    ELSE CASE source = "authors" -> author_mapper(stripped(data[source]), res.pkg)
           [] source = "license" -> licensing_mapper(stripped(data[source]), res.pkg)
           [] source = "require" -> dependencies_mapper(stripped(data[source]), res.pkg)
           [] source = "require-dev" -> dev_dependencies_mapper(stripped(data[source]), res.pkg)
           [] source = "repositories" -> repository_mapper(stripped(data[source]), res.pkg)
           [] OTHER -> support_mapper(stripped(data[source]), res.pkg)

RECURSIVE field_mappers(_, _, _)
\* the loop over field_mappers from the keys in sources on; the outcome of
\* each iteration is computed once and handed to the next
field_mappers(data, sources, res) ==
    IF sources = <<>> THEN res
    ELSE CHOOSE out \in { field_mappers(data, Tail(sources), r) :
                            r \in { field_step(data, Head(sources), res) } } : TRUE

\* the outcome of parse: ret is "None", "package" or "raise"
parse(location, data) ==
    IF ~is_phpcomposer_json(location)
    THEN [ret |-> "None", exc |-> "none", arg |-> <<>>, pkg |-> NewPackage]
    ELSE IF ~Truthy(data["name"]) \/ ~Truthy(data["description"])
    THEN [ret |-> "None", exc |-> "none", arg |-> <<>>, pkg |-> NewPackage]
    ELSE LET fresh == [NewPackage EXCEPT
                          !.location = parent_directory(location.path),
                          !.metafile_locations = <<location.path>>,
                          !.version = data["version"]]
         IN  CHOOSE out \in
                 { [ret |-> IF mapped.exc = "none" THEN "package" ELSE "raise",
                    exc |-> mapped.exc, arg |-> mapped.arg, pkg |-> mapped.pkg] :
                      mapped \in { field_mappers(data, mapper_sources,
                                                 Returned(plain_fields(data, fresh))) } } : TRUE

(***************************************************************************)
(* Inputs of the URL resolver: concatenations of at most MaxChunks chunks. *)
(***************************************************************************)
UrlChunks ==
    { s_git_at, s_gist, s_bitbucket_colon, s_gitlab_colon, s_github_colon,
      s_https, s_github, <<"h","o","s","t">>, <<"f","o","o">>,
      <<":">>, <<"/">>, <<"@">>, <<".","g","i","t">> }

ChunkSeqs(n) == UNION { [1..k -> UrlChunks] : k \in 0..n }

UrlInputs == { Flatten(cs) : cs \in ChunkSeqs(MaxChunks) }

\* the call under way: op(arg) entered with the record pre, done once it has
\* returned or raised with the outcome res
Pending(op, arg, pre) ==
    [op |-> op, done |-> FALSE, arg |-> arg, pre |-> pre, res |-> Returned(pre)]

NoCall == Pending("none", None, NewPackage)

InitUrl ==
    /\ package = NewPackage
    /\ history = <<>>
    /\ \E u \in UrlInputs : call = Pending("parse_repo_url", u, NewPackage)

ParseRepoUrlCall ==
    /\ call.op = "parse_repo_url" /\ ~call.done
    /\ call' = [call EXCEPT !.done = TRUE, !.res = parse_repo_url(call.arg)]
    /\ UNCHANGED <<package, history>>

NextUrl == ParseRepoUrlCall

SpecUrl == InitUrl /\ [][NextUrl]_vars

(***************************************************************************)
(* licensing_mapper called on a record that may already hold assertions.   *)
(***************************************************************************)
s_MIT == <<"M","I","T">>

LicenseElems ==
    { Str(s_MIT), Str(<<>>), Str(<<" ">>), Num(0), Num(1), None, List(<<>>),
      Obj(<< <<s_name, Str(s_MIT)>> >>) }

SeqsUpTo(S, n) == UNION { [1..k -> S] : k \in 0..n }

LicenseInputs ==
    { List(xs) : xs \in SeqsUpTo(LicenseElems, MaxElems) }
        \cup { Str(s_MIT), Str(<<" ", "M", " ">>), Str(<<>>), Num(1), Num(0), None,
               Obj(<<>>), Obj(<< <<s_type, Str(s_MIT)>> >>) }

LicensePackages ==
    { NewPackage, [NewPackage EXCEPT !.asserted_licenses = <<AssertedLicense(s_MIT)>>] }

InitLicense ==
    /\ package \in LicensePackages
    /\ history = <<>>
    /\ \E licenses \in LicenseInputs : call = Pending("licensing_mapper", licenses, package)

LicensingMapperCall ==
    /\ call.op = "licensing_mapper" /\ ~call.done
    /\ LET res == licensing_mapper(call.arg, package)
       IN  /\ call' = [call EXCEPT !.done = TRUE, !.res = res]
           /\ package' = res.pkg
    /\ UNCHANGED history

NextLicense == LicensingMapperCall

SpecLicense == InitLicense /\ [][NextLicense]_vars

(***************************************************************************)
(* dependencies_mapper and dev_dependencies_mapper called in any order on  *)
(* one record; history holds the batches mapped so far.                    *)
(***************************************************************************)
DepNames == { <<"a">>, <<"b">> }

DepConstraints == { Str(<<"^","1">>), Str(<<"^","2">>) }

\* decoded objects with at most MaxBatch distinct keys
DepBatches ==
    { Obj(ps) : ps \in { qs \in SeqsUpTo(DepNames \X DepConstraints, MaxBatch) :
                            \A i, j \in DOMAIN qs : i # j => qs[i][1] # qs[j][1] } }

DepInputs == DepBatches \cup { Str(<<"a">>) }

InitDeps ==
    /\ package = NewPackage
    /\ history = <<>>
    /\ call = NoCall

DepsCall(op, deps, res) ==
    /\ call' = [op |-> op, done |-> TRUE, arg |-> deps, pre |-> package, res |-> res]
    /\ package' = res.pkg
    /\ history' = IF res.exc = "none"
                  THEN Append(history, [op |-> op, arg |-> deps])
                  ELSE history

DependenciesMapperCall ==
    /\ Len(history) < MaxCalls
    /\ \E deps \in DepInputs :
          DepsCall("dependencies_mapper", deps, dependencies_mapper(deps, package))

DevDependenciesMapperCall ==
    /\ Len(history) < MaxCalls
    /\ \E deps \in DepInputs :
          DepsCall("dev_dependencies_mapper", deps, dev_dependencies_mapper(deps, package))

NextDeps == DependenciesMapperCall \/ DevDependenciesMapperCall

SpecDeps == InitDeps /\ [][NextDeps]_vars

(***************************************************************************)
(* author_mapper called on a record that may already hold authors.         *)
(***************************************************************************)
PersonElems ==
    { Obj(<< <<s_name, Str(<<" ","A">>)>>, <<s_email, Str(<<"<","a","@","b",">">>)>> >>),
      Obj(<< <<s_name, Str(<<"B">>)>>, <<s_homepage, Str(<<"(","u",")">>)>> >>),
      Obj(<<>>),
      Obj(<< <<s_name, Num(1)>> >>),
      Str(<<"C">>) }

AuthorInputs ==
    { List(xs) : xs \in SeqsUpTo(PersonElems, MaxElems) }
        \cup { Str(<<"J","o","h","n">>), Str(<<>>), Num(1), Num(0), None,
               Obj(<< <<s_name, Str(<<"A">>)>> >>) }

AuthorPackages ==
    { NewPackage, [NewPackage EXCEPT !.authors = <<Party(Str(<<"Z">>), None, None)>>] }

InitAuthors ==
    /\ package \in AuthorPackages
    /\ history = <<>>
    /\ \E a \in AuthorInputs : call = Pending("author_mapper", a, package)

AuthorMapperCall ==
    /\ call.op = "author_mapper" /\ ~call.done
    /\ LET res == author_mapper(call.arg, package)
       IN  /\ call' = [call EXCEPT !.done = TRUE, !.res = res]
           /\ package' = res.pkg
    /\ UNCHANGED history

NextAuthors == AuthorMapperCall

SpecAuthors == InitAuthors /\ [][NextAuthors]_vars

(***************************************************************************)
(* repository_mapper called on a record whose vcs fields may be set.       *)
(***************************************************************************)
s_composer == <<"c","o","m","p","o","s","e","r">>

Descriptor(type, url) == Obj(<< <<s_type, Str(type)>>, <<s_url, Str(url)>> >>)

RepoUrls ==
    { <<"s","v","n",":","/","/","h">>, <<"h","g","+","h","t","t","p",":","/","/","h">>,
      <<"c","v","s",".","h">>, s_https \o <<"h","/","r">>, <<"o","/","r">>,
      s_github_colon \o <<"o","/","r">>, s_git_at \o <<"h","o","s","t">> }

RepoElems ==
    { Descriptor(s_vcs, u) : u \in RepoUrls }
        \cup { Descriptor(s_composer, s_https \o <<"p">>),
               Obj(<< <<s_type, Str(s_vcs)>> >>),
               Str(<<"o","/","r">>) }

RepoInputs ==
    { List(xs) : xs \in SeqsUpTo(RepoElems, MaxRepos) }
        \cup { Str(u) : u \in RepoUrls }
        \cup { Str(<<>>), Num(1), None, Descriptor(s_vcs, <<"o","/","r">>) }

RepoPackages ==
    { NewPackage,
      [NewPackage EXCEPT !.vcs_tool = Str(s_hg), !.vcs_repository = Str(<<"o","l","d">>)] }

InitRepos ==
    /\ package \in RepoPackages
    /\ history = <<>>
    /\ \E r \in RepoInputs : call = Pending("repository_mapper", r, package)

RepositoryMapperCall ==
    /\ call.op = "repository_mapper" /\ ~call.done
    /\ LET res == repository_mapper(call.arg, package)
       IN  /\ call' = [call EXCEPT !.done = TRUE, !.res = res]
           /\ package' = res.pkg
    /\ UNCHANGED history

NextRepos == RepositoryMapperCall

SpecRepos == InitRepos /\ [][NextRepos]_vars

(***************************************************************************)
(* parse on a location and the decoded content of the file.                *)
(***************************************************************************)
Locations ==
    { [path |-> <<"pkg", "composer.json">>, is_file |-> TRUE],
      [path |-> <<"pkg", "Composer.JSON">>, is_file |-> TRUE],
      [path |-> <<"pkg", "package.json">>, is_file |-> TRUE],
      [path |-> <<"pkg", "composer.json">>, is_file |-> FALSE] }

DataKeys ==
    { "name", "description", "keywords", "version", "homepage", "authors",
      "license", "require", "require-dev", "repositories", "support" }

\* a decoded manifest; the keys not listed in given are missing
Manifest(given) == [k \in DataKeys |-> IF k \in DOMAIN given THEN given[k] ELSE None]

NameValues == { None, Str(<<" ">>), Str(<<"x">>), Str(<<" ","x"," ">>) }

DescriptionValues == { None, Str(<<"\t"," ">>), Str(<<"d">>) }

LicenseValues ==
    { None, Str(s_MIT), Str(<<" ">> \o s_MIT \o <<"\n">>), Str(<<" ">>),
      List(<<Str(s_MIT), Str(<<>>)>>), Num(1) }

AuthorsValues ==
    { None, Str(<<"J","o","h","n">>),
      List(<< Obj(<< <<s_name, Str(<<"A">>)>> >>) >>) }

RequireValues == { None, Obj(<< << <<"a">>, Str(<<"^","1">>) >> >>) }

RepositoriesValues ==
    { None, Str(s_github_colon \o <<"o","/","r">>),
      List(<< Descriptor(s_vcs, <<"s","v","n",":","/","/","h">>) >>) }

SupportValues == { None, Obj(<< <<s_email, Str(<<"a","@","b">>)>> >>) }

\* manifests that vary the fields the acceptance test and the first mappers
\* read, and manifests that vary the remaining fields
Manifests ==
    { Manifest([name |-> n, description |-> d, license |-> l, authors |-> a]) :
        n \in NameValues, d \in DescriptionValues,
        l \in LicenseValues, a \in AuthorsValues }
      \cup
    { Manifest([name |-> Str(<<"x">>), description |-> Str(<<"d">>),
                version |-> Str(<<" ","1">>), keywords |-> List(<<Str(<<"k">>)>>),
                homepage |-> Str(<<" ","h">>), license |-> l, require |-> r,
                repositories |-> p, support |-> s]
               @@ ("require-dev" :> r)) :
        l \in { Str(s_MIT), Str(<<" ">> \o s_MIT \o <<"\n">>) }, r \in RequireValues,
        p \in RepositoriesValues, s \in SupportValues }

InitParse ==
    /\ package = NewPackage
    /\ history = <<>>
    /\ \E location \in Locations, data \in Manifests :
          call = Pending("parse", [location |-> location, data |-> data], NewPackage)

ParseCall ==
    /\ call.op = "parse" /\ ~call.done
    /\ LET res == parse(call.arg.location, call.arg.data)
       IN  /\ call' = [call EXCEPT !.done = TRUE, !.res = res]
           /\ package' = IF res.ret = "package" THEN res.pkg ELSE package
    /\ UNCHANGED history

NextParse == ParseCall

SpecParse == InitParse /\ [][NextParse]_vars

(***************************************************************************)
(* Properties.                                                             *)
(***************************************************************************)

\* C1: for a decodable manifest at a recognized path, parse returns None
\* whenever name or description is missing or empty after trimming, and every
\* returned record has a name and a summary that are non-empty after trimming.
C1_AbsentUnlessNameAndDescription ==
    (call.op = "parse" /\ call.done /\ is_phpcomposer_json(call.arg.location)) =>
        LET blank(v) == v = None \/ (IsString(v) /\ Strip(v.v) = <<>>)
            data == call.arg.data
        IN  /\ (blank(data["name"]) \/ blank(data["description"])) => call.res.ret = "None"
            /\ call.res.ret = "package" =>
                   /\ ~blank(call.res.pkg.name)
                   /\ ~blank(call.res.pkg.summary)

\* C2 as stated: when parse returns a record for a manifest whose license is a
\* string, asserted_licenses has exactly one entry, equal to that string
\* character for character.
C2_LicenseStringVerbatim ==
    (call.op = "parse" /\ call.done /\ call.res.ret = "package"
        /\ IsString(call.arg.data["license"])) =>
        call.res.pkg.asserted_licenses = <<AssertedLicense(call.arg.data["license"].v)>>

\* C2 amended: when parse returns a record for a manifest whose license is a
\* string, asserted_licenses has exactly one entry holding the string with its
\* leading and trailing whitespace removed when that is non-empty, and no
\* entry when the string is empty or whitespace only.
C2_LicenseStringTrimmed ==
    (call.op = "parse" /\ call.done /\ call.res.ret = "package"
        /\ IsString(call.arg.data["license"])) =>
        LET license == call.arg.data["license"].v
            core == { i \in DOMAIN license : license[i] \notin Whitespace }
        IN  IF core = {}
            THEN call.res.pkg.asserted_licenses = <<>>
            ELSE /\ Len(call.res.pkg.asserted_licenses) = 1
                 /\ \E lo, hi \in core :
                       /\ \A i \in core : lo <= i /\ i <= hi
                       /\ call.res.pkg.asserted_licenses[1].license = SubSeq(license, lo, hi)

\* C2 witness: a record returned for a license with surrounding whitespace,
\* holding the trimmed string.
C2_Witness ==
    /\ call.op = "parse" /\ call.done /\ call.res.ret = "package"
    /\ call.arg.data["license"] = Str(<<" ">> \o s_MIT \o <<"\n">>)
    /\ package.asserted_licenses = <<AssertedLicense(s_MIT)>>

\* C3: an input starting with bitbucket:, gitlab: or github: resolves to the
\* URL of that hoster followed by everything after the first colon.
C3_HosterShorthandResolved ==
    (call.op = "parse_repo_url" /\ call.done
        /\ StartsWithAny(call.arg, <<s_bitbucket_colon, s_gitlab_colon, s_github_colon>>)) =>
        LET colon == CHOOSE i \in DOMAIN call.arg :
                         call.arg[i] = ":" /\ \A j \in 1..(i - 1) : call.arg[j] # ":"
            repo == SubSeq(call.arg, colon + 1, Len(call.arg))
        IN  /\ call.res.exc = "none"
            /\ call.res.val =
                   (IF StartsWith(call.arg, s_bitbucket_colon) THEN s_bitbucket_org
                    ELSE IF StartsWith(call.arg, s_gitlab_colon) THEN s_gitlab_com
                    ELSE s_github_com) \o repo

\* C4: an input starting with git@ always yields a string: https://host/path
\* when the host (between the first @ and the next colon) names github,
\* bitbucket or gitlab, and the input itself otherwise.
C4_GitAtReturnsString ==
    (call.op = "parse_repo_url" /\ call.done /\ StartsWith(call.arg, s_git_at)) =>
        LET right == SubSeq(call.arg, 5, Len(call.arg))
            colons == { i \in DOMAIN right : right[i] = ":" }
        IN  /\ call.res.exc = "none"
            /\ colons # {} =>
                 LET c == CHOOSE i \in colons : \A j \in colons : i <= j
                     host == SubSeq(right, 1, c - 1)
                     path == SubSeq(right, c + 1, Len(right))
                 IN  call.res.val =
                        IF Contains(host, s_github) \/ Contains(host, s_bitbucket)
                              \/ Contains(host, s_gitlab)
                        THEN s_https \o host \o <<"/">> \o path
                        ELSE call.arg

\* C5: an input matching none of the earlier rules resolves to
\* https://github.com/owner/repo exactly when it is two non-empty segments
\* around one slash, and is returned unchanged in every other case.
C5_OwnerRepoNeedsTwoNonEmptySegments ==
    (call.op = "parse_repo_url" /\ call.done
        /\ ~StartsWithAny(call.arg, VCS_URLS)
        /\ ~StartsWith(call.arg, s_git_at)
        /\ ~StartsWith(call.arg, s_gist)
        /\ ~StartsWithAny(call.arg, <<s_bitbucket_colon, s_gitlab_colon, s_github_colon>>)) =>
        LET slashes == { i \in DOMAIN call.arg : call.arg[i] = "/" }
            shorthand == /\ Cardinality(slashes) = 1
                         /\ 1 \notin slashes
                         /\ Len(call.arg) \notin slashes
        IN  /\ call.res.exc = "none"
            /\ call.res.val = IF shorthand THEN s_github_com \o call.arg ELSE call.arg

RECURSIVE MappedBatches(_, _)
\* the entries of the batches that the calls of op in hist mapped, in call order
MappedBatches(hist, op) ==
    IF hist = <<>> THEN <<>>
    ELSE (IF Head(hist).op = op
          THEN [i \in DOMAIN Head(hist).arg.v |->
                   [name |-> Head(hist).arg.v[i][1],
                    version_constraint |-> Head(hist).arg.v[i][2]]]
          ELSE <<>>) \o MappedBatches(Tail(hist), op)

\* C6: after any sequence of dependency-mapper calls, the sequence of each
\* kind is the concatenation, in call order, of the batches mapped for that
\* kind; a call appends its batch and leaves the other kind unchanged.
C6_DependenciesAccumulate ==
    /\ \A kind \in {"runtime", "dev"} :
          LET op == IF kind = "runtime" THEN "dependencies_mapper"
                    ELSE "dev_dependencies_mapper"
          IN  /\ kind \in DOMAIN package.dependencies <=>
                     \E i \in DOMAIN history : history[i].op = op
              /\ kind \in DOMAIN package.dependencies =>
                     package.dependencies[kind] = MappedBatches(history, op)
    /\ (call.done /\ call.res.exc = "none") =>
          LET kind == IF call.op = "dependencies_mapper" THEN "runtime" ELSE "dev"
              other == IF kind = "runtime" THEN "dev" ELSE "runtime"
              before == IF kind \in DOMAIN call.pre.dependencies
                        THEN call.pre.dependencies[kind] ELSE <<>>
          IN  /\ SubSeq(package.dependencies[kind], 1, Len(before)) = before
              /\ Len(package.dependencies[kind]) = Len(before) + Len(call.arg.v)
              /\ other \in DOMAIN package.dependencies <=>
                     other \in DOMAIN call.pre.dependencies
              /\ other \in DOMAIN package.dependencies =>
                     package.dependencies[other] = call.pre.dependencies[other]

\* C6 witness: runtime mapped twice with a dev batch in between, all batches
\* non-empty, and both kinds hold their entries.
C6_Witness ==
    /\ Len(history) = 3
    /\ history[1].op = "dependencies_mapper" /\ history[1].arg.v # <<>>
    /\ history[2].op = "dev_dependencies_mapper" /\ history[2].arg.v # <<>>
    /\ history[3].op = "dependencies_mapper" /\ history[3].arg.v # <<>>
    /\ Len(package.dependencies["runtime"]) >= 2
    /\ Len(package.dependencies["dev"]) >= 1

\* C7: the license mapper and the repository mapper complete without raising
\* for a value of any decoded shape.
C7_MappersNeverRaise ==
    (call.done /\ call.op \in {"licensing_mapper", "repository_mapper"}) =>
        call.res.exc = "none"

\* C8 as stated: for a list-valued license, the mapper appends one assertion
\* per non-empty element (a string verbatim, another value as its repr) and
\* nothing for an empty or falsy element, the empty string included.
C8_ListSkipsEveryFalsyElement ==
    (call.done /\ call.op = "licensing_mapper" /\ call.arg.t = "list") =>
        LET kept(e) == Truthy(e)
            elems == SelectSeq(call.arg.v, kept)
        IN  package.asserted_licenses =
                call.pre.asserted_licenses \o
                    [i \in DOMAIN elems |->
                        [license |-> IF IsString(elems[i]) THEN elems[i].v
                                     ELSE Repr(elems[i])]]

\* C8 amended: for a list-valued license, the mapper appends, in list order,
\* one assertion per string element verbatim (the empty string included) and
\* one per non-empty non-string element holding its repr, and nothing for an
\* empty or falsy non-string element; prior entries are kept as a prefix.
C8_ListKeepsStringsAndTruthy ==
    (call.done /\ call.op = "licensing_mapper" /\ call.arg.t = "list") =>
        LET kept(e) == IsString(e) \/ Truthy(e)
            elems == SelectSeq(call.arg.v, kept)
        IN  package.asserted_licenses =
                call.pre.asserted_licenses \o
                    [i \in DOMAIN elems |->
                        [license |-> IF IsString(elems[i]) THEN elems[i].v
                                     ELSE Repr(elems[i])]]

\* C8 witness: a list with an empty string, a falsy number and an object was
\* mapped onto a record that already held an assertion.
C8_Witness ==
    /\ call.done /\ call.op = "licensing_mapper"
    /\ call.arg = List(<<Str(<<>>), Obj(<< <<s_name, Str(s_MIT)>> >>)>>)
    /\ call.pre.asserted_licenses = <<AssertedLicense(s_MIT)>>
    /\ Len(package.asserted_licenses) = 3
    /\ package.asserted_licenses[2] = AssertedLicense(<<>>)

\* C9: for a list of well-formed descriptors, vcs_tool and vcs_repository are
\* those of the last vcs descriptor (tool by url prefix, repository the
\* resolved url), and are unchanged when the list has no vcs descriptor.
C9_LastVcsDescriptorWins ==
    (call.done /\ call.op = "repository_mapper" /\ call.arg.t = "list"
        /\ \A i \in DOMAIN call.arg.v :
              /\ call.arg.v[i].t = "obj"
              /\ IsString(Get(call.arg.v[i], s_type))
              /\ IsString(Get(call.arg.v[i], s_url))) =>
        LET vcs == { i \in DOMAIN call.arg.v : Get(call.arg.v[i], s_type) = Str(s_vcs) }
        IN  IF vcs = {}
            THEN /\ package.vcs_tool = call.pre.vcs_tool
                 /\ package.vcs_repository = call.pre.vcs_repository
            ELSE LET last == CHOOSE i \in vcs : \A j \in vcs : j <= i
                     url == Get(call.arg.v[last], s_url).v
                 IN  /\ package.vcs_tool = Str(vcs_tool_of(url))
                     /\ parse_repo_url(url).exc = "none"
                     /\ package.vcs_repository = Str(parse_repo_url(url).val)

\* C10: for an authors value that is present but not a list, the author
\* mapper fails with an unexpected-shape failure that carries the offending
\* value, and leaves the authors of the record as they were.
C10_AuthorsShapeFailureCarriesValue ==
    (call.done /\ call.op = "author_mapper" /\ call.arg # None /\ call.arg.t # "list") =>
        /\ call.res.exc = "Exception"
        /\ Contains(call.res.arg, Repr(call.arg))
        /\ package.authors = call.pre.authors

====
